---- MODULE Spec2Model ----
(***************************************************************************)
(* Marching-cubes isosurface extraction of PISTON                          *)
(* (src/piston/marching_cube.h), driven as in src/benchmark/marching_cube.cu*)
(*                                                                         *)
(* Conventions.                                                            *)
(*  - thrust vectors are TLA+ sequences; the element the code calls s[i]   *)
(*    (0-based) is At(s, i) == s[i+1].                                     *)
(*  - Scalars (samples, isovalue) are exact numbers counted in half units: *)
(*    the integer k stands for the float k/2, so 0.0, 0.5, 1.0 are 0, 1, 2.*)
(*  - Interpolated quantities are exact rationals <<n, d>>, d > 0, in      *)
(*    lowest terms; a float NaN or infinity is the token NaN.  Rounding of *)
(*    float arithmetic is not modelled.                                    *)
(*  - normalize(c) is represented by the primitive integer vector that     *)
(*    points in the direction of c (the unit vector is that vector divided *)
(*    by its length); normalize of the zero vector is NaN.                 *)
(***************************************************************************)
EXTENDS Integers, Sequences, FiniteSets, TLC

\* ------------------------------------------------------------------ bounds
\* largest isovalue the caller sets, in half units (samples are 0 and 2)
IsoMax == 3
\* largest value an uninitialised or out-of-range read may produce
MaxUninit == 1

\* the largest number of grid points along an axis in the survey of cases
MaxDim == 3

\* ------------------------------------------------------- static case table
\* triTable_array[256][16]; the sentinel X is -1
triTable_array == <<
  <<-1, -1, -1, -1, -1, -1, -1, -1, -1, -1, -1, -1, -1, -1, -1, -1>>,
  <<0, 8, 3, -1, -1, -1, -1, -1, -1, -1, -1, -1, -1, -1, -1, -1>>,
  <<0, 1, 9, -1, -1, -1, -1, -1, -1, -1, -1, -1, -1, -1, -1, -1>>,
  <<1, 8, 3, 9, 8, 1, -1, -1, -1, -1, -1, -1, -1, -1, -1, -1>>,
  <<1, 2, 10, -1, -1, -1, -1, -1, -1, -1, -1, -1, -1, -1, -1, -1>>,
  <<0, 8, 3, 1, 2, 10, -1, -1, -1, -1, -1, -1, -1, -1, -1, -1>>,
  <<9, 2, 10, 0, 2, 9, -1, -1, -1, -1, -1, -1, -1, -1, -1, -1>>,
  <<2, 8, 3, 2, 10, 8, 10, 9, 8, -1, -1, -1, -1, -1, -1, -1>>,
  <<3, 11, 2, -1, -1, -1, -1, -1, -1, -1, -1, -1, -1, -1, -1, -1>>,
  <<0, 11, 2, 8, 11, 0, -1, -1, -1, -1, -1, -1, -1, -1, -1, -1>>,
  <<1, 9, 0, 2, 3, 11, -1, -1, -1, -1, -1, -1, -1, -1, -1, -1>>,
  <<1, 11, 2, 1, 9, 11, 9, 8, 11, -1, -1, -1, -1, -1, -1, -1>>,
  <<3, 10, 1, 11, 10, 3, -1, -1, -1, -1, -1, -1, -1, -1, -1, -1>>,
  <<0, 10, 1, 0, 8, 10, 8, 11, 10, -1, -1, -1, -1, -1, -1, -1>>,
  <<3, 9, 0, 3, 11, 9, 11, 10, 9, -1, -1, -1, -1, -1, -1, -1>>,
  <<9, 8, 10, 10, 8, 11, -1, -1, -1, -1, -1, -1, -1, -1, -1, -1>>,
  <<4, 7, 8, -1, -1, -1, -1, -1, -1, -1, -1, -1, -1, -1, -1, -1>>,
  <<4, 3, 0, 7, 3, 4, -1, -1, -1, -1, -1, -1, -1, -1, -1, -1>>,
  <<0, 1, 9, 8, 4, 7, -1, -1, -1, -1, -1, -1, -1, -1, -1, -1>>,
  <<4, 1, 9, 4, 7, 1, 7, 3, 1, -1, -1, -1, -1, -1, -1, -1>>,
  <<1, 2, 10, 8, 4, 7, -1, -1, -1, -1, -1, -1, -1, -1, -1, -1>>,
  <<3, 4, 7, 3, 0, 4, 1, 2, 10, -1, -1, -1, -1, -1, -1, -1>>,
  <<9, 2, 10, 9, 0, 2, 8, 4, 7, -1, -1, -1, -1, -1, -1, -1>>,
  <<2, 10, 9, 2, 9, 7, 2, 7, 3, 7, 9, 4, -1, -1, -1, -1>>,
  <<8, 4, 7, 3, 11, 2, -1, -1, -1, -1, -1, -1, -1, -1, -1, -1>>,
  <<11, 4, 7, 11, 2, 4, 2, 0, 4, -1, -1, -1, -1, -1, -1, -1>>,
  <<9, 0, 1, 8, 4, 7, 2, 3, 11, -1, -1, -1, -1, -1, -1, -1>>,
  <<4, 7, 11, 9, 4, 11, 9, 11, 2, 9, 2, 1, -1, -1, -1, -1>>,
  <<3, 10, 1, 3, 11, 10, 7, 8, 4, -1, -1, -1, -1, -1, -1, -1>>,
  <<1, 11, 10, 1, 4, 11, 1, 0, 4, 7, 11, 4, -1, -1, -1, -1>>,
  <<4, 7, 8, 9, 0, 11, 9, 11, 10, 11, 0, 3, -1, -1, -1, -1>>,
  <<4, 7, 11, 4, 11, 9, 9, 11, 10, -1, -1, -1, -1, -1, -1, -1>>,
  <<9, 5, 4, -1, -1, -1, -1, -1, -1, -1, -1, -1, -1, -1, -1, -1>>,
  <<9, 5, 4, 0, 8, 3, -1, -1, -1, -1, -1, -1, -1, -1, -1, -1>>,
  <<0, 5, 4, 1, 5, 0, -1, -1, -1, -1, -1, -1, -1, -1, -1, -1>>,
  <<8, 5, 4, 8, 3, 5, 3, 1, 5, -1, -1, -1, -1, -1, -1, -1>>,
  <<1, 2, 10, 9, 5, 4, -1, -1, -1, -1, -1, -1, -1, -1, -1, -1>>,
  <<3, 0, 8, 1, 2, 10, 4, 9, 5, -1, -1, -1, -1, -1, -1, -1>>,
  <<5, 2, 10, 5, 4, 2, 4, 0, 2, -1, -1, -1, -1, -1, -1, -1>>,
  <<2, 10, 5, 3, 2, 5, 3, 5, 4, 3, 4, 8, -1, -1, -1, -1>>,
  <<9, 5, 4, 2, 3, 11, -1, -1, -1, -1, -1, -1, -1, -1, -1, -1>>,
  <<0, 11, 2, 0, 8, 11, 4, 9, 5, -1, -1, -1, -1, -1, -1, -1>>,
  <<0, 5, 4, 0, 1, 5, 2, 3, 11, -1, -1, -1, -1, -1, -1, -1>>,
  <<2, 1, 5, 2, 5, 8, 2, 8, 11, 4, 8, 5, -1, -1, -1, -1>>,
  <<10, 3, 11, 10, 1, 3, 9, 5, 4, -1, -1, -1, -1, -1, -1, -1>>,
  <<4, 9, 5, 0, 8, 1, 8, 10, 1, 8, 11, 10, -1, -1, -1, -1>>,
  <<5, 4, 0, 5, 0, 11, 5, 11, 10, 11, 0, 3, -1, -1, -1, -1>>,
  <<5, 4, 8, 5, 8, 10, 10, 8, 11, -1, -1, -1, -1, -1, -1, -1>>,
  <<9, 7, 8, 5, 7, 9, -1, -1, -1, -1, -1, -1, -1, -1, -1, -1>>,
  <<9, 3, 0, 9, 5, 3, 5, 7, 3, -1, -1, -1, -1, -1, -1, -1>>,
  <<0, 7, 8, 0, 1, 7, 1, 5, 7, -1, -1, -1, -1, -1, -1, -1>>,
  <<1, 5, 3, 3, 5, 7, -1, -1, -1, -1, -1, -1, -1, -1, -1, -1>>,
  <<9, 7, 8, 9, 5, 7, 10, 1, 2, -1, -1, -1, -1, -1, -1, -1>>,
  <<10, 1, 2, 9, 5, 0, 5, 3, 0, 5, 7, 3, -1, -1, -1, -1>>,
  <<8, 0, 2, 8, 2, 5, 8, 5, 7, 10, 5, 2, -1, -1, -1, -1>>,
  <<2, 10, 5, 2, 5, 3, 3, 5, 7, -1, -1, -1, -1, -1, -1, -1>>,
  <<7, 9, 5, 7, 8, 9, 3, 11, 2, -1, -1, -1, -1, -1, -1, -1>>,
  <<9, 5, 7, 9, 7, 2, 9, 2, 0, 2, 7, 11, -1, -1, -1, -1>>,
  <<2, 3, 11, 0, 1, 8, 1, 7, 8, 1, 5, 7, -1, -1, -1, -1>>,
  <<11, 2, 1, 11, 1, 7, 7, 1, 5, -1, -1, -1, -1, -1, -1, -1>>,
  <<9, 5, 8, 8, 5, 7, 10, 1, 3, 10, 3, 11, -1, -1, -1, -1>>,
  <<5, 7, 0, 5, 0, 9, 7, 11, 0, 1, 0, 10, 11, 10, 0, -1>>,
  <<11, 10, 0, 11, 0, 3, 10, 5, 0, 8, 0, 7, 5, 7, 0, -1>>,
  <<11, 10, 5, 7, 11, 5, -1, -1, -1, -1, -1, -1, -1, -1, -1, -1>>,
  <<10, 6, 5, -1, -1, -1, -1, -1, -1, -1, -1, -1, -1, -1, -1, -1>>,
  <<0, 8, 3, 5, 10, 6, -1, -1, -1, -1, -1, -1, -1, -1, -1, -1>>,
  <<9, 0, 1, 5, 10, 6, -1, -1, -1, -1, -1, -1, -1, -1, -1, -1>>,
  <<1, 8, 3, 1, 9, 8, 5, 10, 6, -1, -1, -1, -1, -1, -1, -1>>,
  <<1, 6, 5, 2, 6, 1, -1, -1, -1, -1, -1, -1, -1, -1, -1, -1>>,
  <<1, 6, 5, 1, 2, 6, 3, 0, 8, -1, -1, -1, -1, -1, -1, -1>>,
  <<9, 6, 5, 9, 0, 6, 0, 2, 6, -1, -1, -1, -1, -1, -1, -1>>,
  <<5, 9, 8, 5, 8, 2, 5, 2, 6, 3, 2, 8, -1, -1, -1, -1>>,
  <<2, 3, 11, 10, 6, 5, -1, -1, -1, -1, -1, -1, -1, -1, -1, -1>>,
  <<11, 0, 8, 11, 2, 0, 10, 6, 5, -1, -1, -1, -1, -1, -1, -1>>,
  <<0, 1, 9, 2, 3, 11, 5, 10, 6, -1, -1, -1, -1, -1, -1, -1>>,
  <<5, 10, 6, 1, 9, 2, 9, 11, 2, 9, 8, 11, -1, -1, -1, -1>>,
  <<6, 3, 11, 6, 5, 3, 5, 1, 3, -1, -1, -1, -1, -1, -1, -1>>,
  <<0, 8, 11, 0, 11, 5, 0, 5, 1, 5, 11, 6, -1, -1, -1, -1>>,
  <<3, 11, 6, 0, 3, 6, 0, 6, 5, 0, 5, 9, -1, -1, -1, -1>>,
  <<6, 5, 9, 6, 9, 11, 11, 9, 8, -1, -1, -1, -1, -1, -1, -1>>,
  <<5, 10, 6, 4, 7, 8, -1, -1, -1, -1, -1, -1, -1, -1, -1, -1>>,
  <<4, 3, 0, 4, 7, 3, 6, 5, 10, -1, -1, -1, -1, -1, -1, -1>>,
  <<1, 9, 0, 5, 10, 6, 8, 4, 7, -1, -1, -1, -1, -1, -1, -1>>,
  <<10, 6, 5, 1, 9, 7, 1, 7, 3, 7, 9, 4, -1, -1, -1, -1>>,
  <<6, 1, 2, 6, 5, 1, 4, 7, 8, -1, -1, -1, -1, -1, -1, -1>>,
  <<1, 2, 5, 5, 2, 6, 3, 0, 4, 3, 4, 7, -1, -1, -1, -1>>,
  <<8, 4, 7, 9, 0, 5, 0, 6, 5, 0, 2, 6, -1, -1, -1, -1>>,
  <<7, 3, 9, 7, 9, 4, 3, 2, 9, 5, 9, 6, 2, 6, 9, -1>>,
  <<3, 11, 2, 7, 8, 4, 10, 6, 5, -1, -1, -1, -1, -1, -1, -1>>,
  <<5, 10, 6, 4, 7, 2, 4, 2, 0, 2, 7, 11, -1, -1, -1, -1>>,
  <<0, 1, 9, 4, 7, 8, 2, 3, 11, 5, 10, 6, -1, -1, -1, -1>>,
  <<9, 2, 1, 9, 11, 2, 9, 4, 11, 7, 11, 4, 5, 10, 6, -1>>,
  <<8, 4, 7, 3, 11, 5, 3, 5, 1, 5, 11, 6, -1, -1, -1, -1>>,
  <<5, 1, 11, 5, 11, 6, 1, 0, 11, 7, 11, 4, 0, 4, 11, -1>>,
  <<0, 5, 9, 0, 6, 5, 0, 3, 6, 11, 6, 3, 8, 4, 7, -1>>,
  <<6, 5, 9, 6, 9, 11, 4, 7, 9, 7, 11, 9, -1, -1, -1, -1>>,
  <<10, 4, 9, 6, 4, 10, -1, -1, -1, -1, -1, -1, -1, -1, -1, -1>>,
  <<4, 10, 6, 4, 9, 10, 0, 8, 3, -1, -1, -1, -1, -1, -1, -1>>,
  <<10, 0, 1, 10, 6, 0, 6, 4, 0, -1, -1, -1, -1, -1, -1, -1>>,
  <<8, 3, 1, 8, 1, 6, 8, 6, 4, 6, 1, 10, -1, -1, -1, -1>>,
  <<1, 4, 9, 1, 2, 4, 2, 6, 4, -1, -1, -1, -1, -1, -1, -1>>,
  <<3, 0, 8, 1, 2, 9, 2, 4, 9, 2, 6, 4, -1, -1, -1, -1>>,
  <<0, 2, 4, 4, 2, 6, -1, -1, -1, -1, -1, -1, -1, -1, -1, -1>>,
  <<8, 3, 2, 8, 2, 4, 4, 2, 6, -1, -1, -1, -1, -1, -1, -1>>,
  <<10, 4, 9, 10, 6, 4, 11, 2, 3, -1, -1, -1, -1, -1, -1, -1>>,
  <<0, 8, 2, 2, 8, 11, 4, 9, 10, 4, 10, 6, -1, -1, -1, -1>>,
  <<3, 11, 2, 0, 1, 6, 0, 6, 4, 6, 1, 10, -1, -1, -1, -1>>,
  <<6, 4, 1, 6, 1, 10, 4, 8, 1, 2, 1, 11, 8, 11, 1, -1>>,
  <<9, 6, 4, 9, 3, 6, 9, 1, 3, 11, 6, 3, -1, -1, -1, -1>>,
  <<8, 11, 1, 8, 1, 0, 11, 6, 1, 9, 1, 4, 6, 4, 1, -1>>,
  <<3, 11, 6, 3, 6, 0, 0, 6, 4, -1, -1, -1, -1, -1, -1, -1>>,
  <<6, 4, 8, 11, 6, 8, -1, -1, -1, -1, -1, -1, -1, -1, -1, -1>>,
  <<7, 10, 6, 7, 8, 10, 8, 9, 10, -1, -1, -1, -1, -1, -1, -1>>,
  <<0, 7, 3, 0, 10, 7, 0, 9, 10, 6, 7, 10, -1, -1, -1, -1>>,
  <<10, 6, 7, 1, 10, 7, 1, 7, 8, 1, 8, 0, -1, -1, -1, -1>>,
  <<10, 6, 7, 10, 7, 1, 1, 7, 3, -1, -1, -1, -1, -1, -1, -1>>,
  <<1, 2, 6, 1, 6, 8, 1, 8, 9, 8, 6, 7, -1, -1, -1, -1>>,
  <<2, 6, 9, 2, 9, 1, 6, 7, 9, 0, 9, 3, 7, 3, 9, -1>>,
  <<7, 8, 0, 7, 0, 6, 6, 0, 2, -1, -1, -1, -1, -1, -1, -1>>,
  <<7, 3, 2, 6, 7, 2, -1, -1, -1, -1, -1, -1, -1, -1, -1, -1>>,
  <<2, 3, 11, 10, 6, 8, 10, 8, 9, 8, 6, 7, -1, -1, -1, -1>>,
  <<2, 0, 7, 2, 7, 11, 0, 9, 7, 6, 7, 10, 9, 10, 7, -1>>,
  <<1, 8, 0, 1, 7, 8, 1, 10, 7, 6, 7, 10, 2, 3, 11, -1>>,
  <<11, 2, 1, 11, 1, 7, 10, 6, 1, 6, 7, 1, -1, -1, -1, -1>>,
  <<8, 9, 6, 8, 6, 7, 9, 1, 6, 11, 6, 3, 1, 3, 6, -1>>,
  <<0, 9, 1, 11, 6, 7, -1, -1, -1, -1, -1, -1, -1, -1, -1, -1>>,
  <<7, 8, 0, 7, 0, 6, 3, 11, 0, 11, 6, 0, -1, -1, -1, -1>>,
  <<7, 11, 6, -1, -1, -1, -1, -1, -1, -1, -1, -1, -1, -1, -1, -1>>,
  <<7, 6, 11, -1, -1, -1, -1, -1, -1, -1, -1, -1, -1, -1, -1, -1>>,
  <<3, 0, 8, 11, 7, 6, -1, -1, -1, -1, -1, -1, -1, -1, -1, -1>>,
  <<0, 1, 9, 11, 7, 6, -1, -1, -1, -1, -1, -1, -1, -1, -1, -1>>,
  <<8, 1, 9, 8, 3, 1, 11, 7, 6, -1, -1, -1, -1, -1, -1, -1>>,
  <<10, 1, 2, 6, 11, 7, -1, -1, -1, -1, -1, -1, -1, -1, -1, -1>>,
  <<1, 2, 10, 3, 0, 8, 6, 11, 7, -1, -1, -1, -1, -1, -1, -1>>,
  <<2, 9, 0, 2, 10, 9, 6, 11, 7, -1, -1, -1, -1, -1, -1, -1>>,
  <<6, 11, 7, 2, 10, 3, 10, 8, 3, 10, 9, 8, -1, -1, -1, -1>>,
  <<7, 2, 3, 6, 2, 7, -1, -1, -1, -1, -1, -1, -1, -1, -1, -1>>,
  <<7, 0, 8, 7, 6, 0, 6, 2, 0, -1, -1, -1, -1, -1, -1, -1>>,
  <<2, 7, 6, 2, 3, 7, 0, 1, 9, -1, -1, -1, -1, -1, -1, -1>>,
  <<1, 6, 2, 1, 8, 6, 1, 9, 8, 8, 7, 6, -1, -1, -1, -1>>,
  <<10, 7, 6, 10, 1, 7, 1, 3, 7, -1, -1, -1, -1, -1, -1, -1>>,
  <<10, 7, 6, 1, 7, 10, 1, 8, 7, 1, 0, 8, -1, -1, -1, -1>>,
  <<0, 3, 7, 0, 7, 10, 0, 10, 9, 6, 10, 7, -1, -1, -1, -1>>,
  <<7, 6, 10, 7, 10, 8, 8, 10, 9, -1, -1, -1, -1, -1, -1, -1>>,
  <<6, 8, 4, 11, 8, 6, -1, -1, -1, -1, -1, -1, -1, -1, -1, -1>>,
  <<3, 6, 11, 3, 0, 6, 0, 4, 6, -1, -1, -1, -1, -1, -1, -1>>,
  <<8, 6, 11, 8, 4, 6, 9, 0, 1, -1, -1, -1, -1, -1, -1, -1>>,
  <<9, 4, 6, 9, 6, 3, 9, 3, 1, 11, 3, 6, -1, -1, -1, -1>>,
  <<6, 8, 4, 6, 11, 8, 2, 10, 1, -1, -1, -1, -1, -1, -1, -1>>,
  <<1, 2, 10, 3, 0, 11, 0, 6, 11, 0, 4, 6, -1, -1, -1, -1>>,
  <<4, 11, 8, 4, 6, 11, 0, 2, 9, 2, 10, 9, -1, -1, -1, -1>>,
  <<10, 9, 3, 10, 3, 2, 9, 4, 3, 11, 3, 6, 4, 6, 3, -1>>,
  <<8, 2, 3, 8, 4, 2, 4, 6, 2, -1, -1, -1, -1, -1, -1, -1>>,
  <<0, 4, 2, 4, 6, 2, -1, -1, -1, -1, -1, -1, -1, -1, -1, -1>>,
  <<1, 9, 0, 2, 3, 4, 2, 4, 6, 4, 3, 8, -1, -1, -1, -1>>,
  <<1, 9, 4, 1, 4, 2, 2, 4, 6, -1, -1, -1, -1, -1, -1, -1>>,
  <<8, 1, 3, 8, 6, 1, 8, 4, 6, 6, 10, 1, -1, -1, -1, -1>>,
  <<10, 1, 0, 10, 0, 6, 6, 0, 4, -1, -1, -1, -1, -1, -1, -1>>,
  <<4, 6, 3, 4, 3, 8, 6, 10, 3, 0, 3, 9, 10, 9, 3, -1>>,
  <<10, 9, 4, 6, 10, 4, -1, -1, -1, -1, -1, -1, -1, -1, -1, -1>>,
  <<4, 9, 5, 7, 6, 11, -1, -1, -1, -1, -1, -1, -1, -1, -1, -1>>,
  <<0, 8, 3, 4, 9, 5, 11, 7, 6, -1, -1, -1, -1, -1, -1, -1>>,
  <<5, 0, 1, 5, 4, 0, 7, 6, 11, -1, -1, -1, -1, -1, -1, -1>>,
  <<11, 7, 6, 8, 3, 4, 3, 5, 4, 3, 1, 5, -1, -1, -1, -1>>,
  <<9, 5, 4, 10, 1, 2, 7, 6, 11, -1, -1, -1, -1, -1, -1, -1>>,
  <<6, 11, 7, 1, 2, 10, 0, 8, 3, 4, 9, 5, -1, -1, -1, -1>>,
  <<7, 6, 11, 5, 4, 10, 4, 2, 10, 4, 0, 2, -1, -1, -1, -1>>,
  <<3, 4, 8, 3, 5, 4, 3, 2, 5, 10, 5, 2, 11, 7, 6, -1>>,
  <<7, 2, 3, 7, 6, 2, 5, 4, 9, -1, -1, -1, -1, -1, -1, -1>>,
  <<9, 5, 4, 0, 8, 6, 0, 6, 2, 6, 8, 7, -1, -1, -1, -1>>,
  <<3, 6, 2, 3, 7, 6, 1, 5, 0, 5, 4, 0, -1, -1, -1, -1>>,
  <<6, 2, 8, 6, 8, 7, 2, 1, 8, 4, 8, 5, 1, 5, 8, -1>>,
  <<9, 5, 4, 10, 1, 6, 1, 7, 6, 1, 3, 7, -1, -1, -1, -1>>,
  <<1, 6, 10, 1, 7, 6, 1, 0, 7, 8, 7, 0, 9, 5, 4, -1>>,
  <<4, 0, 10, 4, 10, 5, 0, 3, 10, 6, 10, 7, 3, 7, 10, -1>>,
  <<7, 6, 10, 7, 10, 8, 5, 4, 10, 4, 8, 10, -1, -1, -1, -1>>,
  <<6, 9, 5, 6, 11, 9, 11, 8, 9, -1, -1, -1, -1, -1, -1, -1>>,
  <<3, 6, 11, 0, 6, 3, 0, 5, 6, 0, 9, 5, -1, -1, -1, -1>>,
  <<0, 11, 8, 0, 5, 11, 0, 1, 5, 5, 6, 11, -1, -1, -1, -1>>,
  <<6, 11, 3, 6, 3, 5, 5, 3, 1, -1, -1, -1, -1, -1, -1, -1>>,
  <<1, 2, 10, 9, 5, 11, 9, 11, 8, 11, 5, 6, -1, -1, -1, -1>>,
  <<0, 11, 3, 0, 6, 11, 0, 9, 6, 5, 6, 9, 1, 2, 10, -1>>,
  <<11, 8, 5, 11, 5, 6, 8, 0, 5, 10, 5, 2, 0, 2, 5, -1>>,
  <<6, 11, 3, 6, 3, 5, 2, 10, 3, 10, 5, 3, -1, -1, -1, -1>>,
  <<5, 8, 9, 5, 2, 8, 5, 6, 2, 3, 8, 2, -1, -1, -1, -1>>,
  <<9, 5, 6, 9, 6, 0, 0, 6, 2, -1, -1, -1, -1, -1, -1, -1>>,
  <<1, 5, 8, 1, 8, 0, 5, 6, 8, 3, 8, 2, 6, 2, 8, -1>>,
  <<1, 5, 6, 2, 1, 6, -1, -1, -1, -1, -1, -1, -1, -1, -1, -1>>,
  <<1, 3, 6, 1, 6, 10, 3, 8, 6, 5, 6, 9, 8, 9, 6, -1>>,
  <<10, 1, 0, 10, 0, 6, 9, 5, 0, 5, 6, 0, -1, -1, -1, -1>>,
  <<0, 3, 8, 5, 6, 10, -1, -1, -1, -1, -1, -1, -1, -1, -1, -1>>,
  <<10, 5, 6, -1, -1, -1, -1, -1, -1, -1, -1, -1, -1, -1, -1, -1>>,
  <<11, 5, 10, 7, 5, 11, -1, -1, -1, -1, -1, -1, -1, -1, -1, -1>>,
  <<11, 5, 10, 11, 7, 5, 8, 3, 0, -1, -1, -1, -1, -1, -1, -1>>,
  <<5, 11, 7, 5, 10, 11, 1, 9, 0, -1, -1, -1, -1, -1, -1, -1>>,
  <<10, 7, 5, 10, 11, 7, 9, 8, 1, 8, 3, 1, -1, -1, -1, -1>>,
  <<11, 1, 2, 11, 7, 1, 7, 5, 1, -1, -1, -1, -1, -1, -1, -1>>,
  <<0, 8, 3, 1, 2, 7, 1, 7, 5, 7, 2, 11, -1, -1, -1, -1>>,
  <<9, 7, 5, 9, 2, 7, 9, 0, 2, 2, 11, 7, -1, -1, -1, -1>>,
  <<7, 5, 2, 7, 2, 11, 5, 9, 2, 3, 2, 8, 9, 8, 2, -1>>,
  <<2, 5, 10, 2, 3, 5, 3, 7, 5, -1, -1, -1, -1, -1, -1, -1>>,
  <<8, 2, 0, 8, 5, 2, 8, 7, 5, 10, 2, 5, -1, -1, -1, -1>>,
  <<9, 0, 1, 5, 10, 3, 5, 3, 7, 3, 10, 2, -1, -1, -1, -1>>,
  <<9, 8, 2, 9, 2, 1, 8, 7, 2, 10, 2, 5, 7, 5, 2, -1>>,
  <<1, 3, 5, 3, 7, 5, -1, -1, -1, -1, -1, -1, -1, -1, -1, -1>>,
  <<0, 8, 7, 0, 7, 1, 1, 7, 5, -1, -1, -1, -1, -1, -1, -1>>,
  <<9, 0, 3, 9, 3, 5, 5, 3, 7, -1, -1, -1, -1, -1, -1, -1>>,
  <<9, 8, 7, 5, 9, 7, -1, -1, -1, -1, -1, -1, -1, -1, -1, -1>>,
  <<5, 8, 4, 5, 10, 8, 10, 11, 8, -1, -1, -1, -1, -1, -1, -1>>,
  <<5, 0, 4, 5, 11, 0, 5, 10, 11, 11, 3, 0, -1, -1, -1, -1>>,
  <<0, 1, 9, 8, 4, 10, 8, 10, 11, 10, 4, 5, -1, -1, -1, -1>>,
  <<10, 11, 4, 10, 4, 5, 11, 3, 4, 9, 4, 1, 3, 1, 4, -1>>,
  <<2, 5, 1, 2, 8, 5, 2, 11, 8, 4, 5, 8, -1, -1, -1, -1>>,
  <<0, 4, 11, 0, 11, 3, 4, 5, 11, 2, 11, 1, 5, 1, 11, -1>>,
  <<0, 2, 5, 0, 5, 9, 2, 11, 5, 4, 5, 8, 11, 8, 5, -1>>,
  <<9, 4, 5, 2, 11, 3, -1, -1, -1, -1, -1, -1, -1, -1, -1, -1>>,
  <<2, 5, 10, 3, 5, 2, 3, 4, 5, 3, 8, 4, -1, -1, -1, -1>>,
  <<5, 10, 2, 5, 2, 4, 4, 2, 0, -1, -1, -1, -1, -1, -1, -1>>,
  <<3, 10, 2, 3, 5, 10, 3, 8, 5, 4, 5, 8, 0, 1, 9, -1>>,
  <<5, 10, 2, 5, 2, 4, 1, 9, 2, 9, 4, 2, -1, -1, -1, -1>>,
  <<8, 4, 5, 8, 5, 3, 3, 5, 1, -1, -1, -1, -1, -1, -1, -1>>,
  <<0, 4, 5, 1, 0, 5, -1, -1, -1, -1, -1, -1, -1, -1, -1, -1>>,
  <<8, 4, 5, 8, 5, 3, 9, 0, 5, 0, 3, 5, -1, -1, -1, -1>>,
  <<9, 4, 5, -1, -1, -1, -1, -1, -1, -1, -1, -1, -1, -1, -1, -1>>,
  <<4, 11, 7, 4, 9, 11, 9, 10, 11, -1, -1, -1, -1, -1, -1, -1>>,
  <<0, 8, 3, 4, 9, 7, 9, 11, 7, 9, 10, 11, -1, -1, -1, -1>>,
  <<1, 10, 11, 1, 11, 4, 1, 4, 0, 7, 4, 11, -1, -1, -1, -1>>,
  <<3, 1, 4, 3, 4, 8, 1, 10, 4, 7, 4, 11, 10, 11, 4, -1>>,
  <<4, 11, 7, 9, 11, 4, 9, 2, 11, 9, 1, 2, -1, -1, -1, -1>>,
  <<9, 7, 4, 9, 11, 7, 9, 1, 11, 2, 11, 1, 0, 8, 3, -1>>,
  <<11, 7, 4, 11, 4, 2, 2, 4, 0, -1, -1, -1, -1, -1, -1, -1>>,
  <<11, 7, 4, 11, 4, 2, 8, 3, 4, 3, 2, 4, -1, -1, -1, -1>>,
  <<2, 9, 10, 2, 7, 9, 2, 3, 7, 7, 4, 9, -1, -1, -1, -1>>,
  <<9, 10, 7, 9, 7, 4, 10, 2, 7, 8, 7, 0, 2, 0, 7, -1>>,
  <<3, 7, 10, 3, 10, 2, 7, 4, 10, 1, 10, 0, 4, 0, 10, -1>>,
  <<1, 10, 2, 8, 7, 4, -1, -1, -1, -1, -1, -1, -1, -1, -1, -1>>,
  <<4, 9, 1, 4, 1, 7, 7, 1, 3, -1, -1, -1, -1, -1, -1, -1>>,
  <<4, 9, 1, 4, 1, 7, 0, 8, 1, 8, 7, 1, -1, -1, -1, -1>>,
  <<4, 0, 3, 7, 4, 3, -1, -1, -1, -1, -1, -1, -1, -1, -1, -1>>,
  <<4, 8, 7, -1, -1, -1, -1, -1, -1, -1, -1, -1, -1, -1, -1, -1>>,
  <<9, 10, 8, 10, 11, 8, -1, -1, -1, -1, -1, -1, -1, -1, -1, -1>>,
  <<3, 0, 9, 3, 9, 11, 11, 9, 10, -1, -1, -1, -1, -1, -1, -1>>,
  <<0, 1, 10, 0, 10, 8, 8, 10, 11, -1, -1, -1, -1, -1, -1, -1>>,
  <<3, 1, 10, 11, 3, 10, -1, -1, -1, -1, -1, -1, -1, -1, -1, -1>>,
  <<1, 2, 11, 1, 11, 9, 9, 11, 8, -1, -1, -1, -1, -1, -1, -1>>,
  <<3, 0, 9, 3, 9, 11, 1, 2, 9, 2, 11, 9, -1, -1, -1, -1>>,
  <<0, 2, 11, 8, 0, 11, -1, -1, -1, -1, -1, -1, -1, -1, -1, -1>>,
  <<3, 2, 11, -1, -1, -1, -1, -1, -1, -1, -1, -1, -1, -1, -1, -1>>,
  <<2, 3, 8, 2, 8, 10, 10, 8, 9, -1, -1, -1, -1, -1, -1, -1>>,
  <<9, 10, 2, 0, 9, 2, -1, -1, -1, -1, -1, -1, -1, -1, -1, -1>>,
  <<2, 3, 8, 2, 8, 10, 0, 1, 8, 1, 10, 8, -1, -1, -1, -1>>,
  <<1, 10, 2, -1, -1, -1, -1, -1, -1, -1, -1, -1, -1, -1, -1, -1>>,
  <<1, 3, 8, 9, 1, 8, -1, -1, -1, -1, -1, -1, -1, -1, -1, -1>>,
  <<0, 9, 1, -1, -1, -1, -1, -1, -1, -1, -1, -1, -1, -1, -1, -1>>,
  <<0, 3, 8, -1, -1, -1, -1, -1, -1, -1, -1, -1, -1, -1, -1, -1>>,
  <<-1, -1, -1, -1, -1, -1, -1, -1, -1, -1, -1, -1, -1, -1, -1, -1>>
>>

\* numVerticesTable_array[256]
numVerticesTable_array == <<
  0, 3, 3, 6, 3, 6, 6, 9, 3, 6, 6, 9, 6, 9, 9, 6,
  3, 6, 6, 9, 6, 9, 9, 12, 6, 9, 9, 12, 9, 12, 12, 9,
  3, 6, 6, 9, 6, 9, 9, 12, 6, 9, 9, 12, 9, 12, 12, 9,
  6, 9, 9, 6, 9, 12, 12, 9, 9, 12, 12, 9, 12, 15, 15, 6,
  3, 6, 6, 9, 6, 9, 9, 12, 6, 9, 9, 12, 9, 12, 12, 9,
  6, 9, 9, 12, 9, 12, 12, 15, 9, 12, 12, 15, 12, 15, 15, 12,
  6, 9, 9, 12, 9, 12, 6, 9, 9, 12, 12, 15, 12, 15, 9, 6,
  9, 12, 12, 9, 12, 15, 9, 6, 12, 15, 15, 12, 15, 6, 12, 3,
  3, 6, 6, 9, 6, 9, 9, 12, 6, 9, 9, 12, 9, 12, 12, 9,
  6, 9, 9, 12, 9, 12, 12, 15, 9, 6, 12, 9, 12, 9, 15, 6,
  6, 9, 9, 12, 9, 12, 12, 15, 9, 12, 12, 15, 12, 15, 15, 12,
  9, 12, 12, 9, 12, 15, 15, 12, 12, 9, 15, 6, 15, 12, 6, 3,
  6, 9, 9, 12, 9, 12, 12, 15, 9, 12, 12, 15, 6, 9, 9, 6,
  9, 12, 12, 15, 12, 15, 15, 6, 12, 9, 15, 12, 9, 6, 12, 3,
  9, 12, 12, 15, 12, 15, 9, 12, 12, 15, 15, 6, 9, 12, 6, 3,
  6, 9, 9, 6, 9, 12, 6, 3, 9, 6, 12, 3, 6, 3, 3, 0
>>

\* the table had its rows been padded with edge 0 instead of the sentinel
triTable_zero_padded(k) ==
  IF triTable_array[(k \div 16) + 1][(k % 16) + 1] = -1 THEN 0
  ELSE triTable_array[(k \div 16) + 1][(k % 16) + 1]

\* triTable: the flat copy made by the constructor
triTable(k) == triTable_array[(k \div 16) + 1][(k % 16) + 1]

\* the copy had it been taken one entry late
numVertsTable_shifted(k) == numVerticesTable_array[((k + 1) % 256) + 1]

\* numVertsTable: the flat copy made by the constructor
numVertsTable(k) == numVerticesTable_array[k + 1]

\* edge -> pair of cube corners
verticesForEdge == << 0, 1, 1, 2, 3, 2, 0, 3,
                      4, 5, 5, 6, 7, 6, 4, 7,
                      0, 4, 1, 5, 2, 6, 3, 7 >>

\* ------------------------------------------------------------ vector helpers
At(s, i) == s[i + 1]

\* vector::resize(n): keeps the common prefix, value-initialises the rest
Resize(s, n, dflt) ==
  IF n <= Len(s) THEN SubSeq(s, 1, n)
  ELSE s \o [k \in 1..(n - Len(s)) |-> dflt]

\* vector::back()
Back(s) == s[Len(s)]

\* ------------------------------------------------------- exact float stand-in
\* a float that is not a number (one token, unequal to every number and vector)
NaN == << "NaN" >>

Abs(a) == IF a < 0 THEN -a ELSE a

RECURSIVE GCD(_, _)
GCD(a, b) == IF b = 0 THEN a ELSE GCD(b, a % b)

\* the rational n/d (d # 0) in lowest terms with a positive denominator
Rat(n, d) ==
  LET g == GCD(Abs(n), Abs(d))
      s == IF d < 0 THEN -1 ELSE 1
  IN  << (s * n) \div g, (s * d) \div g >>

\* float division: x/0 is an infinity or a NaN, both written NaN here
RDiv(n, d) == IF d = 0 THEN NaN ELSE Rat(n, d)

RAdd(a, b) ==
  IF a = NaN \/ b = NaN THEN NaN
  ELSE Rat(a[1] * b[2] + b[1] * a[2], a[2] * b[2])

RSub(a, b) ==
  IF a = NaN \/ b = NaN THEN NaN
  ELSE Rat(a[1] * b[2] - b[1] * a[2], a[2] * b[2])

RMul(a, b) ==
  IF a = NaN \/ b = NaN THEN NaN
  ELSE Rat(a[1] * b[1], a[2] * b[2])

RInt(k) == << k, 1 >>

\* value-initialised float4 and float3
Zero4 == << RInt(0), RInt(0), RInt(0), RInt(0) >>

Zero3 == << 0, 0, 0 >>

\* lerp(a, b, t) = a + t*(b - a), componentwise on float3
lerp(p0, p1, t) ==
  [c \in 1..3 |-> RAdd(RInt(p0[c]), RMul(t, RInt(p1[c] - p0[c])))]

\* cross(a, b) on float3
cross(a, b) ==
  << RSub(RMul(a[2], b[3]), RMul(a[3], b[2])),
     RSub(RMul(a[3], b[1]), RMul(a[1], b[3])),
     RSub(RMul(a[1], b[2]), RMul(a[2], b[1])) >>

\* normalize(v) = v * rsqrt(dot(v, v)): the direction of v as a primitive
\* integer vector; the zero vector (0 * infinity) and NaN input give NaN
normalize(v) ==
  IF v[1] = NaN \/ v[2] = NaN \/ v[3] = NaN THEN NaN
  ELSE LET m  == v[1][2] * v[2][2] * v[3][2]
           iv == [c \in 1..3 |-> v[c][1] * (m \div v[c][2])]
           g  == GCD(GCD(Abs(iv[1]), Abs(iv[2])), Abs(iv[3]))
       IN  IF g = 0 THEN NaN ELSE << iv[1] \div g, iv[2] \div g, iv[3] \div g >>

\* ---------------------------------------------------------------- input field
\* grids offered to the constructor: dim0, dim1, dim2
DimChoices == { <<2, 2, 2>>, <<4, 2, 2>>, <<2, 3, 2>>, <<1, 2, 2>>, <<2, 2, 1>> }

\* sample values, in half units: 0.0 and 1.0
SampleValues == {0, 2}

NPoints(d) == d[1] * d[2] * d[3]

\* input.NCells
NCellsOf(d) == (d[1] - 1) * (d[2] - 1) * (d[3] - 1)

\* grid coordinate of point i, x fastest
GridCoord(d, i) == << i % d[1], (i \div d[1]) % d[2], i \div (d[1] * d[2]) >>

\* *(physical_coord + i): the field places point i at its grid coordinate
physical_coord(d, i) == GridCoord(d, i)

\* two-level fields that vary along one axis only (planes of equal samples)
AxisFields(d) ==
  UNION { { [i \in 1..NPoints(d) |-> g[GridCoord(d, i - 1)[a] + 1]] :
            g \in [1..d[a] -> SampleValues] } : a \in 1..3 }

\* two-level fields in which one grid point differs from all the others
PointFields(d) ==
  { [i \in 1..NPoints(d) |-> IF i = q THEN v ELSE 2 - v] :
      q \in 1..NPoints(d), v \in SampleValues }

\* the fields offered to the constructor
FieldChoices(d) ==
  IF NCellsOf(d) = 1 THEN AxisFields(d) \cup PointFields(d) ELSE AxisFields(d)

\* every grid with 2..MaxDim points along each axis
CaseGrids == { << a, b, c >> : a, b, c \in 2..MaxDim }

\* on the one-cell grid every two-level field, so that every case index
\* occurs; on larger grids the fields of equal planes
CaseFields(d) ==
  IF NCellsOf(d) = 1 THEN [1..NPoints(d) -> SampleValues] ELSE AxisFields(d)

IsoValues == (-1)..IsoMax

UninitValues == 0..MaxUninit

\* ------------------------------------------------------------------- functors
\* the corner indices had the layer stride been the number of cells of a layer
classify_corners_cell_layer(d, cell_id) ==
  LET xdim == d[1]
      ydim == d[2]
      cells_per_layer  == (xdim - 1) * (ydim - 1)
      x  == cell_id % (xdim - 1)
      y  == (cell_id \div (xdim - 1)) % (ydim - 1)
      z  == cell_id \div cells_per_layer
      i0 == x + y * xdim + z * cells_per_layer
      i1 == i0 + 1
      i2 == i0 + 1 + xdim
      i3 == i0 + xdim
  IN  << i0, i1, i2, i3,
         i0 + cells_per_layer, i1 + cells_per_layer,
         i2 + cells_per_layer, i3 + cells_per_layer >>

\* classify_cell: the eight corner point indices of a cell
classify_corners(d, cell_id) ==
  LET xdim == d[1]
      ydim == d[2]
      cells_per_layer  == (xdim - 1) * (ydim - 1)
      points_per_layer == xdim * ydim
      x  == cell_id % (xdim - 1)
      y  == (cell_id \div (xdim - 1)) % (ydim - 1)
      z  == cell_id \div cells_per_layer
      i0 == x + y * xdim + z * points_per_layer
      i1 == i0 + 1
      i2 == i0 + 1 + xdim
      i3 == i0 + xdim
  IN  << i0, i1, i2, i3,
         i0 + points_per_layer, i1 + points_per_layer,
         i2 + points_per_layer, i3 + points_per_layer >>

\* the comparison had it counted a sample equal to the isovalue as above
Above_or_equal(f, iso) == IF f >= iso THEN 1 ELSE 0

\* the comparison had it been written the other way round
Above_inverted(f, iso) == IF f < iso THEN 1 ELSE 0

\* (f > isovalue) as 0/1
Above(f, iso) == IF f > iso THEN 1 ELSE 0

\* the case index had corner 0 been given the highest bit and corner 7 the
\* lowest
classify_cell_msb_first(d, pd, iso, cell_id) ==
  LET i == classify_corners(d, cell_id)
      f == [k \in 1..8 |-> At(pd, i[k])]
      cubeindex == Above(f[8], iso)       + Above(f[7], iso) * 2
                 + Above(f[6], iso) * 4   + Above(f[5], iso) * 8
                 + Above(f[4], iso) * 16  + Above(f[3], iso) * 32
                 + Above(f[2], iso) * 64  + Above(f[1], iso) * 128
  IN  << cubeindex, numVertsTable(cubeindex) >>

\* classify_cell::operator(): <<cubeindex, numVertsTable[cubeindex]>>
classify_cell(d, pd, iso, cell_id) ==
  LET i == classify_corners(d, cell_id)
      f == [k \in 1..8 |-> At(pd, i[k])]
      cubeindex == Above(f[1], iso)       + Above(f[2], iso) * 2
                 + Above(f[3], iso) * 4   + Above(f[4], iso) * 8
                 + Above(f[5], iso) * 16  + Above(f[6], iso) * 32
                 + Above(f[7], iso) * 64  + Above(f[8], iso) * 128
  IN  << cubeindex, numVertsTable(cubeindex) >>

\* is_valid_cell::operator(), as the 0/1 the scan adds up
is_valid_cell(numVertices) == IF numVertices # 0 THEN 1 ELSE 0

\* the corner indices had corners 2 and 3 been taken in row order
functor_corners_unwound(d, cell_id) ==
  LET xdim == d[1]
      ydim == d[2]
      cells_per_layer == (xdim - 1) * (ydim - 1)
      x  == cell_id % (xdim - 1)
      y  == (cell_id \div (xdim - 1)) % (ydim - 1)
      z  == cell_id \div cells_per_layer
      i0 == x + y * xdim + z * xdim * ydim
      i1 == i0 + 1
      i2 == i0 + xdim
      i3 == i0 + 1 + xdim
  IN  << i0, i1, i2, i3,
         i0 + xdim * ydim, i1 + xdim * ydim,
         i2 + xdim * ydim, i3 + xdim * ydim >>

\* isosurface_functor: the eight corner point indices of a cell
functor_corners(d, cell_id) ==
  LET xdim == d[1]
      ydim == d[2]
      cells_per_layer == (xdim - 1) * (ydim - 1)
      x  == cell_id % (xdim - 1)
      y  == (cell_id \div (xdim - 1)) % (ydim - 1)
      z  == cell_id \div cells_per_layer
      i0 == x + y * xdim + z * xdim * ydim
      i1 == i0 + 1
      i2 == i0 + 1 + xdim
      i3 == i0 + xdim
  IN  << i0, i1, i2, i3,
         i0 + xdim * ydim, i1 + xdim * ydim,
         i2 + xdim * ydim, i3 + xdim * ydim >>

\* the interpolation factor t of output vertex v of a cell
interp_t(d, pd, iso, cell_id, cubeindex, v) ==
  LET i    == functor_corners(d, cell_id)
      edge == triTable(cubeindex * 16 + v)
      v0   == At(verticesForEdge, 2 * edge)
      v1   == At(verticesForEdge, 2 * edge + 1)
      f0   == At(pd, i[v0 + 1])
      f1   == At(pd, i[v1 + 1])
  IN  RDiv(iso - f0, f1 - f0)

\* make_float4(vertex_interp(p[v0], p[v1], t), 1.0f) for output vertex v
interp_vertex(d, pd, iso, cell_id, cubeindex, v) ==
  LET i    == functor_corners(d, cell_id)
      edge == triTable(cubeindex * 16 + v)
      v0   == At(verticesForEdge, 2 * edge)
      v1   == At(verticesForEdge, 2 * edge + 1)
      t    == interp_t(d, pd, iso, cell_id, cubeindex, v)
      p    == lerp(physical_coord(d, i[v0 + 1]), physical_coord(d, i[v1 + 1]), t)
  IN  << p[1], p[2], p[3], RInt(1) >>

\* normalize(cross(vertex[1] - vertex[0], vertex[2] - vertex[0]))
triangle_normal(a, b, c) ==
  LET edge0 == [k \in 1..3 |-> RSub(b[k], a[k])]
      edge1 == [k \in 1..3 |-> RSub(c[k], a[k])]
  IN  normalize(cross(edge0, edge1))

\* isosurface_functor::operator() on one tuple
\* (cell_id, outputVertId, cubeindex, numVertices); out = [vertices, normals]
isosurface_functor(out, d, pd, iso, cell_id, outputVertId, cubeindex, numVertices) ==
  LET mine(k) == (k - 1) >= outputVertId /\ (k - 1) < outputVertId + numVertices
      \* first loop: interpolation for vertex positions
      V == [k \in 1..Len(out.vertices) |->
              IF mine(k)
              THEN interp_vertex(d, pd, iso, cell_id, cubeindex, k - 1 - outputVertId)
              ELSE out.vertices[k]]
      \* second loop: one normal per vertex triple, read back from the output
      T == [j \in 1..(numVertices \div 3) |->
              LET b == outputVertId + 3 * (j - 1)
              IN  triangle_normal(At(V, b), At(V, b + 1), At(V, b + 2))]
      N == [k \in 1..Len(out.normals) |->
              IF mine(k)
              THEN T[((k - 1 - outputVertId) \div 3) + 1]
              ELSE out.normals[k]]
  IN  [vertices |-> V, normals |-> N]

\* the output position had the offset of the cell been left out
output_slot_unshifted(outputVertId, v) == v

\* vertices_output + outputVertId + v, normals_output + outputVertId + v
output_slot(outputVertId, v) == outputVertId + v

\* the triangle had it been read back from the start of the output
readback_slot_unshifted(outputVertId, v) == v

\* const float4 *vertex = (vertices_output + outputVertId + v)
readback_slot(outputVertId, v) == outputVertId + v

\* ------------------------------------------------------------------ primitives
\* thrust::inclusive_scan with plus
RECURSIVE inclusive_scan(_)
inclusive_scan(s) ==
  IF s = <<>> THEN <<>>
  ELSE LET r == inclusive_scan(SubSeq(s, 1, Len(s) - 1))
       IN  Append(r, (IF r = <<>> THEN 0 ELSE Back(r)) + Back(s))

\* the offsets had they been computed with an inclusive scan
exclusive_scan_inclusive(s) == inclusive_scan(s)

\* thrust::exclusive_scan with plus, initial value 0
exclusive_scan(s) ==
  LET inc == inclusive_scan(s)
  IN  [k \in 1..Len(s) |-> IF k = 1 THEN 0 ELSE inc[k - 1]]

\* thrust::lower_bound, had the search been written with it: index of the
\* first element not less than the value, or the length of the range
lower_bound(s, val) ==
  LET ge == {k \in 1..Len(s) : s[k] >= val}
  IN  IF ge = {} THEN Len(s)
      ELSE (CHOOSE k \in ge : \A m \in ge : k <= m) - 1

\* thrust::upper_bound of one value in a sorted range: index of the first
\* element greater than the value, or the length of the range
upper_bound(s, val) ==
  LET gt == {k \in 1..Len(s) : s[k] > val}
  IN  IF gt = {} THEN Len(s)
      ELSE (CHOOSE k \in gt : \A m \in gt : k <= m) - 1

\* thrust::for_each over the first n valid cells with isosurface_functor
RECURSIVE for_each_valid(_, _, _, _, _, _)
for_each_valid(S, out, d, pd, iso, n) ==
  IF n = 0 THEN out
  ELSE LET j    == n - 1
           cell == At(S.valid_cell_indices, j)
       IN  isosurface_functor(for_each_valid(S, out, d, pd, iso, n - 1),
                              d, pd, iso,
                              cell,
                              At(S.output_vertices_enum, j),
                              At(S.case_index, cell),
                              At(S.num_vertices, cell))

\* ---------------------------------------------------------------- the Surface
VARIABLES
  dims,                  \* input.dim0, dim1, dim2
  point_data,            \* input.point_data_begin()[0 .. NPoints)
  isovalue,
  case_index, num_vertices, valid_cell_enum,
  valid_cell_indices, output_vertices_enum,
  vertices, normals, scalars,
  num_total_vertices,
  lastOp,                \* the member function called last
  lastArg,               \* its argument: includeInput of freeMemory
  outcome,               \* how that call ended: "ok", "threw" or "crashed"
  passes,                \* the passes the last operator() ran, in order
  num_valid_cells,       \* the local num_valid_cells of the last operator()
  runs,                  \* operator() calls completed in a row with nothing
                         \* in between: 0, 1, or 2 for two or more
  len_before,            \* vertices.size() when the last call was entered
  exec                   \* the per-cell invocations of a pass that is under
                         \* way on a parallel executor

vars == << dims, point_data, isovalue, case_index, num_vertices,
           valid_cell_enum, valid_cell_indices, output_vertices_enum,
           vertices, normals, scalars, num_total_vertices,
           lastOp, lastArg, outcome, passes, num_valid_cells, runs,
           len_before, exec >>

\* no pass is under way
Idle ==
  [ phase |-> "idle", classified |-> {}, pc |-> <<>>, touched |-> <<>>,
    vwrites |-> <<>>, nwrites |-> <<>>, reordered |-> FALSE ]

\* the data members of the object as one record
Surface ==
  [ isovalue |-> isovalue,
    case_index |-> case_index, num_vertices |-> num_vertices,
    valid_cell_enum |-> valid_cell_enum,
    valid_cell_indices |-> valid_cell_indices,
    output_vertices_enum |-> output_vertices_enum,
    vertices |-> vertices, normals |-> normals, scalars |-> scalars,
    num_total_vertices |-> num_total_vertices ]

\* marching_cube(input, source, isovalue): the vectors start empty and
\* num_total_vertices is not initialised (garbage)
Constructed(iso, garbage) ==
  [ isovalue |-> iso,
    case_index |-> <<>>, num_vertices |-> <<>>, valid_cell_enum |-> <<>>,
    valid_cell_indices |-> <<>>, output_vertices_enum |-> <<>>,
    vertices |-> <<>>, normals |-> <<>>, scalars |-> <<>>,
    num_total_vertices |-> garbage ]

\* freeMemory had it ignored its argument
freeMemory_all(S, includeInput) ==
  [ S EXCEPT !.case_index = <<>>, !.num_vertices = <<>>,
             !.valid_cell_enum = <<>>,
             !.valid_cell_indices = <<>>, !.output_vertices_enum = <<>>,
             !.vertices = <<>>, !.normals = <<>>, !.scalars = <<>> ]

\* freeMemory(includeInput)
freeMemory(S, includeInput) ==
  [ S EXCEPT !.case_index      = IF includeInput THEN <<>> ELSE @,
             !.num_vertices    = IF includeInput THEN <<>> ELSE @,
             !.valid_cell_enum = IF includeInput THEN <<>> ELSE @,
             !.valid_cell_indices = <<>>,
             !.output_vertices_enum = <<>>,
             !.vertices = <<>>,
             !.normals  = <<>>,
             !.scalars  = <<>> ]

\* set_isovalue had it dropped the surface of the previous isovalue
set_isovalue_resetting(S, val) ==
  [S EXCEPT !.isovalue = val, !.vertices = <<>>, !.normals = <<>>,
            !.scalars = <<>>]

\* set_isovalue(val)
set_isovalue(S, val) == [S EXCEPT !.isovalue = val]

\* the early return had it forgotten to clear the normals
early_out_keeps_normals(S) ==
  [S EXCEPT !.vertices = <<>>, !.scalars = <<>>]

\* operator(), "no valid cells at all, return with empty vectors"
early_out(S) ==
  [S EXCEPT !.vertices = <<>>, !.normals = <<>>, !.scalars = <<>>]

\* the total had it been accumulated onto the previous one
total_vertices_accumulated(S) ==
  S.num_total_vertices
    + At(S.num_vertices, Back(S.valid_cell_indices)) + Back(S.output_vertices_enum)

\* operator(), "get the total number of vertices"
total_vertices(S) ==
  At(S.num_vertices, Back(S.valid_cell_indices)) + Back(S.output_vertices_enum)

\* the permutation iterator num_vertices[valid_cell_indices[j]]
permuted_num_vertices(S) ==
  [j \in 1..Len(S.valid_cell_indices) |-> At(S.num_vertices, S.valid_cell_indices[j])]

\* the places where operator() resizes an output vector and may run out of
\* memory; "none" is the run in which every allocation succeeds
FailPoints == {"none", "vertices", "normals"}

\* how operator() ends: the members, the passes run, the local and the outcome
Ended(S, p, nvc, how) ==
  [S |-> S, passes |-> p, num_valid_cells |-> nvc, outcome |-> how]

\* The body of operator(), statement by statement.  Each step takes the
\* object as the statements before it left it.
\*   d, pd: the input field;  nvc: the local num_valid_cells;
\*   fail: the resize that throws, if it has to allocate;
\*   back: what valid_cell_enum.back() yields when the vector is empty

\* thrust::for_each with isosurface_functor over the valid cells
generate(S, nvc, out) ==
  Ended([S EXCEPT !.vertices = out.vertices, !.normals = out.normals],
        << "classify", "enumerate", "upper_bound", "exclusive_scan", "generate" >>,
        nvc, "ok")

\* normals.resize(num_total_vertices), then the geometry pass
resize_normals(S, d, pd, nvc, fail) ==
  IF fail = "normals" /\ S.num_total_vertices > Len(S.normals)
  THEN Ended(S, << "classify", "enumerate", "upper_bound", "exclusive_scan" >>,
             nvc, "threw")
  ELSE generate([S EXCEPT !.normals = Resize(@, S.num_total_vertices, Zero3)],
                nvc,
                for_each_valid(
                  S,
                  [vertices |-> S.vertices,
                   normals  |-> Resize(S.normals, S.num_total_vertices, Zero3)],
                  d, pd, S.isovalue, nvc))

\* vertices.resize(num_total_vertices)
resize_vertices(S, d, pd, nvc, fail) ==
  IF fail = "vertices" /\ S.num_total_vertices > Len(S.vertices)
  THEN Ended(S, << "classify", "enumerate", "upper_bound", "exclusive_scan" >>,
             nvc, "threw")
  ELSE resize_normals([S EXCEPT !.vertices = Resize(@, S.num_total_vertices, Zero4)],
                      d, pd, nvc, fail)

\* num_total_vertices = num_vertices[valid_cell_indices.back()]
\*                      + output_vertices_enum.back()
assign_total(S, d, pd, nvc, fail) ==
  resize_vertices([S EXCEPT !.num_total_vertices = total_vertices(S)],
                  d, pd, nvc, fail)

\* output_vertices_enum.resize(num_valid_cells) and the exclusive scan
scan_offsets(S, d, pd, nvc, fail) ==
  assign_total([S EXCEPT !.output_vertices_enum =
                  exclusive_scan(permuted_num_vertices(S))],
               d, pd, nvc, fail)

\* valid_cell_indices.resize(num_valid_cells) and the upper_bound search
find_valid_cells(S, d, pd, nvc, fail) ==
  scan_offsets([S EXCEPT !.valid_cell_indices =
                  [r \in 1..nvc |-> upper_bound(S.valid_cell_enum, r - 1)]],
               d, pd, nvc, fail)

\* if (num_valid_cells == 0) { ... return; }
branch_on_count(S, d, pd, nvc, fail) ==
  IF NCellsOf(d) = 0 /\ nvc # 0
    THEN \* the garbage count sends the later passes outside every vector
         Ended(S, << "classify", "enumerate" >>, nvc, "crashed")
  ELSE IF nvc = 0
    THEN Ended(early_out(S), << "classify", "enumerate" >>, nvc, "ok")
  ELSE find_valid_cells(S, d, pd, nvc, fail)

\* valid_cell_enum.resize(NCells), the inclusive scan, and
\* num_valid_cells = valid_cell_enum.back()
enumerate_valid(S, d, pd, fail, back) ==
  branch_on_count(
    [S EXCEPT !.valid_cell_enum =
       inclusive_scan([c \in 1..NCellsOf(d) |-> is_valid_cell(S.num_vertices[c])])],
    d, pd,
    IF NCellsOf(d) = 0 THEN back
    ELSE Back(inclusive_scan([c \in 1..NCellsOf(d) |-> is_valid_cell(S.num_vertices[c])])),
    fail)

\* thrust::transform with classify_cell into (case_index, num_vertices)
classify_all(S, d, pd, fail, back) ==
  enumerate_valid(
    [S EXCEPT !.case_index =
                [c \in 1..NCellsOf(d) |-> classify_cell(d, pd, S.isovalue, c - 1)[1]],
              !.num_vertices =
                [c \in 1..NCellsOf(d) |-> classify_cell(d, pd, S.isovalue, c - 1)[2]]],
    d, pd, fail, back)

\* operator()() on the object S over the field (d, pd)
operator_call(S, d, pd, fail, back) ==
  classify_all([S EXCEPT !.case_index   = Resize(@, NCellsOf(d), 0),
                         !.num_vertices = Resize(@, NCellsOf(d), 0)],
               d, pd, fail, back)

\* ------------------------------------------------------------------- actions
Store(S) ==
  /\ isovalue' = S.isovalue
  /\ case_index' = S.case_index
  /\ num_vertices' = S.num_vertices
  /\ valid_cell_enum' = S.valid_cell_enum
  /\ valid_cell_indices' = S.valid_cell_indices
  /\ output_vertices_enum' = S.output_vertices_enum
  /\ vertices' = S.vertices
  /\ normals' = S.normals
  /\ scalars' = S.scalars
  /\ num_total_vertices' = S.num_total_vertices

\* the object after an operator() call, and how the call ended
StoreCall(R) ==
  /\ Store(R.S)
  /\ passes' = R.passes
  /\ num_valid_cells' = R.num_valid_cells
  /\ outcome' = R.outcome
  /\ runs' = IF R.outcome # "ok" THEN 0
             ELSE IF runs = 0 THEN 1 ELSE 2

\* a Surface has been constructed over the field and nothing was called yet
Fresh ==
  /\ \E iso \in IsoValues, garbage \in UninitValues :
       LET S == Constructed(iso, garbage)
       IN  /\ isovalue = S.isovalue
           /\ case_index = S.case_index
           /\ num_vertices = S.num_vertices
           /\ valid_cell_enum = S.valid_cell_enum
           /\ valid_cell_indices = S.valid_cell_indices
           /\ output_vertices_enum = S.output_vertices_enum
           /\ vertices = S.vertices
           /\ normals = S.normals
           /\ scalars = S.scalars
           /\ num_total_vertices = S.num_total_vertices
  /\ lastOp = "construct"
  /\ lastArg = FALSE
  /\ outcome = "ok"
  /\ passes = <<>>
  /\ num_valid_cells = 0
  /\ runs = 0
  /\ len_before = 0
  /\ exec = Idle

Init ==
  /\ dims \in DimChoices
  /\ point_data \in FieldChoices(dims)
  /\ Fresh

\* a call is possible while the process is alive
Alive == outcome # "crashed"

SetIsovalue ==
  /\ Alive
  /\ \E val \in IsoValues : Store(set_isovalue(Surface, val))
  /\ lastOp' = "set_isovalue"
  /\ lastArg' = FALSE
  /\ outcome' = "ok"
  /\ passes' = <<>>
  /\ num_valid_cells' = 0
  /\ runs' = 0
  /\ len_before' = Len(vertices)
  /\ UNCHANGED << dims, point_data, exec >>

Extract ==
  /\ Alive
  /\ \E fail \in FailPoints, back \in UninitValues :
       \* back() is defined unless the vector is empty
       /\ NCellsOf(dims) # 0 => back = 0
       /\ StoreCall(operator_call(Surface, dims, point_data, fail, back))
  /\ lastOp' = "extract"
  /\ lastArg' = FALSE
  /\ len_before' = Len(vertices)
  /\ UNCHANGED << dims, point_data, exec >>

FreeMemory ==
  /\ Alive
  /\ \E includeInput \in BOOLEAN :
       /\ Store(freeMemory(Surface, includeInput))
       /\ lastArg' = includeInput
  /\ lastOp' = "freeMemory"
  /\ outcome' = "ok"
  /\ passes' = <<>>
  /\ num_valid_cells' = 0
  /\ runs' = 0
  /\ len_before' = Len(vertices)
  /\ UNCHANGED << dims, point_data, exec >>

Next == SetIsovalue \/ Extract \/ FreeMemory

Spec == Init /\ [][Next]_vars

\* ------------------------------------------- one extraction, cell by cell
\* The first operator() call on a new Surface as a parallel executor may run
\* it: the passes in program order, the invocations of the classification
\* pass and of the geometry pass one loop iteration at a time in any order.

\* the members that no step of the two parallel passes assigns
ScalarsKept ==
  UNCHANGED << dims, point_data, isovalue, valid_cell_enum, valid_cell_indices,
               output_vertices_enum, scalars, num_total_vertices >>

CallPending ==
  UNCHANGED << lastOp, lastArg, outcome, passes, num_valid_cells, runs,
               len_before >>

\* operator() is entered: case_index.resize(NCells), num_vertices.resize(NCells)
Enter ==
  /\ exec.phase = "idle"
  /\ lastOp = "construct"
  /\ case_index' = Resize(case_index, NCellsOf(dims), 0)
  /\ num_vertices' = Resize(num_vertices, NCellsOf(dims), 0)
  /\ exec' = [exec EXCEPT !.phase = "classify"]
  /\ UNCHANGED << vertices, normals >>
  /\ ScalarsKept
  /\ CallPending

\* the transform writes the classify_cell result of cell c
StoreClass(c, r) ==
  /\ case_index' = [case_index EXCEPT ![c + 1] = r[1]]
  /\ num_vertices' = [num_vertices EXCEPT ![c + 1] = r[2]]
  /\ exec' = [exec EXCEPT !.classified = @ \cup {c},
                          !.reordered = @ \/ \E b \in 0..(c - 1) : b \notin exec.classified]

\* one invocation of classify_cell by thrust::transform
ClassifyStep ==
  /\ exec.phase = "classify"
  /\ \E c \in (0..(NCellsOf(dims) - 1)) \ exec.classified :
       StoreClass(c, classify_cell(dims, point_data, isovalue, c))
  /\ UNCHANGED << vertices, normals >>
  /\ ScalarsKept
  /\ CallPending

\* the passes between classification and geometry have run as R tells:
\* either operator() has ended, or the outputs are resized and the
\* invocations of isosurface_functor are about to start
Scanned(R) ==
  IF R.outcome = "ok" /\ R.num_valid_cells > 0
  THEN /\ Store([R.S EXCEPT
                   !.vertices = Resize(vertices, R.S.num_total_vertices, Zero4),
                   !.normals  = Resize(normals, R.S.num_total_vertices, Zero3)])
       /\ num_valid_cells' = R.num_valid_cells
       /\ passes' = << "classify", "enumerate", "upper_bound", "exclusive_scan" >>
       /\ exec' = [exec EXCEPT
                     !.phase   = "generate",
                     !.pc      = [j \in 1..R.num_valid_cells |-> 0],
                     !.touched = [j \in 1..R.num_valid_cells |-> {}],
                     !.vwrites = [k \in 1..R.S.num_total_vertices |-> 0],
                     !.nwrites = [k \in 1..R.S.num_total_vertices |-> 0]]
       /\ UNCHANGED << lastOp, outcome, runs >>
  ELSE /\ StoreCall(R)
       /\ lastOp' = "extract"
       /\ exec' = [exec EXCEPT !.phase = "done"]

\* the inclusive scan, the early return or the search, the exclusive scan,
\* the total and the two resizes, in program order
ScanPasses ==
  /\ exec.phase = "classify"
  /\ exec.classified = 0..(NCellsOf(dims) - 1)
  /\ \E back \in UninitValues :
       /\ NCellsOf(dims) # 0 => back = 0
       /\ Scanned(enumerate_valid(Surface, dims, point_data, "none", back))
  /\ UNCHANGED << dims, point_data, lastArg, len_before >>

\* the tuple the zip iterator hands to invocation j (from 1) of the functor:
\* cell_id, outputVertId, cubeindex, numVertices
indices_tuple(j) ==
  << valid_cell_indices[j],
     output_vertices_enum[j],
     At(case_index, valid_cell_indices[j]),
     At(num_vertices, valid_cell_indices[j]) >>

\* an invocation before j has not finished: j runs out of sequential order
RunsAhead(j) ==
  \E i \in 1..(j - 1) :
    exec.pc[i] < indices_tuple(i)[4] + (indices_tuple(i)[4] \div 3)

\* iteration v of the first loop of invocation j, which writes to slot
WriteVertex(j, tup, v, slot) ==
  /\ vertices' = [vertices EXCEPT ![slot + 1] =
                    interp_vertex(dims, point_data, isovalue, tup[1], tup[3], v)]
  /\ exec' = [exec EXCEPT !.pc[j] = @ + 1,
                          !.touched[j] = @ \cup {slot},
                          !.vwrites[slot + 1] = @ + 1,
                          !.reordered = @ \/ RunsAhead(j)]

\* for (int v = 0; v < numVertices; v++): one iteration in one invocation
VertexStep ==
  /\ exec.phase = "generate"
  /\ \E j \in 1..Len(exec.pc) :
       /\ exec.pc[j] < indices_tuple(j)[4]
       /\ WriteVertex(j, indices_tuple(j), exec.pc[j],
                      output_slot(indices_tuple(j)[2], exec.pc[j]))
  /\ UNCHANGED << case_index, num_vertices, normals >>
  /\ ScalarsKept
  /\ CallPending

\* the iteration of the second loop of invocation j that reads the triangle
\* at vertex[0..2] = from, from + 1, from + 2 and writes its normal to slot,
\* slot + 1 and slot + 2
WriteNormal(j, from, slot) ==
  /\ normals' = [normals EXCEPT
                   ![slot + 1] = triangle_normal(At(vertices, from),
                                                 At(vertices, from + 1),
                                                 At(vertices, from + 2)),
                   ![slot + 2] = triangle_normal(At(vertices, from),
                                                 At(vertices, from + 1),
                                                 At(vertices, from + 2)),
                   ![slot + 3] = triangle_normal(At(vertices, from),
                                                 At(vertices, from + 1),
                                                 At(vertices, from + 2))]
  /\ exec' = [exec EXCEPT !.pc[j] = @ + 1,
                          !.touched[j] = @ \cup {from, from + 1, from + 2,
                                                 slot, slot + 1, slot + 2},
                          !.nwrites[slot + 1] = @ + 1,
                          !.nwrites[slot + 2] = @ + 1,
                          !.nwrites[slot + 3] = @ + 1,
                          !.reordered = @ \/ RunsAhead(j)]

\* for (int v = 0; v < numVertices; v += 3): one iteration in one
\* invocation, once its first loop is over
NormalStep ==
  /\ exec.phase = "generate"
  /\ \E j \in 1..Len(exec.pc) :
       /\ exec.pc[j] >= indices_tuple(j)[4]
       /\ exec.pc[j] < indices_tuple(j)[4] + (indices_tuple(j)[4] \div 3)
       /\ WriteNormal(j,
                      readback_slot(indices_tuple(j)[2],
                                    3 * (exec.pc[j] - indices_tuple(j)[4])),
                      output_slot(indices_tuple(j)[2],
                                  3 * (exec.pc[j] - indices_tuple(j)[4])))
  /\ UNCHANGED << case_index, num_vertices, vertices >>
  /\ ScalarsKept
  /\ CallPending

\* every invocation has returned: for_each returns and operator() with it
Finish ==
  /\ exec.phase = "generate"
  /\ \A j \in 1..Len(exec.pc) :
       exec.pc[j] = indices_tuple(j)[4] + (indices_tuple(j)[4] \div 3)
  /\ exec' = [exec EXCEPT !.phase = "done"]
  /\ lastOp' = "extract"
  /\ outcome' = "ok"
  /\ passes' = << "classify", "enumerate", "upper_bound", "exclusive_scan",
                  "generate" >>
  /\ runs' = 1
  /\ UNCHANGED << case_index, num_vertices, vertices, normals, lastArg,
                  num_valid_cells, len_before >>
  /\ ScalarsKept

NextPar ==
  Enter \/ ClassifyStep \/ ScanPasses \/ VertexStep \/ NormalStep \/ Finish

SpecPar == Init /\ [][NextPar]_vars

\* ------------------------------------------ one extraction per case and grid
\* The first operator() call on a new Surface, over every case of a cell and
\* over grids of every shape up to MaxDim.
InitCases ==
  /\ dims \in CaseGrids
  /\ point_data \in CaseFields(dims)
  /\ Fresh

ExtractFirst == lastOp = "construct" /\ Extract

SpecCases == InitCases /\ [][ExtractFirst]_vars

\* -------------------------------------------------------------------- claims
\* an operator() call has just returned normally
Completed == lastOp = "extract" /\ outcome = "ok"

\* some dimension of the input field is less than 2
BadDims == dims[1] < 2 \/ dims[2] < 2 \/ dims[3] < 2

\* the isovalue lies strictly outside the range of the samples
OutsideRange ==
  \/ \A i \in 1..Len(point_data) : point_data[i] < isovalue
  \/ \A i \in 1..Len(point_data) : point_data[i] > isovalue

RECURSIVE SumSeq(_)
SumSeq(s) == IF s = <<>> THEN 0 ELSE s[1] + SumSeq(Tail(s))

\* C1: once an extraction with an isovalue strictly above the largest sample
\* or strictly below the smallest sample has completed, num_total_vertices
\* is 0, whatever calls preceded it.  (Stated for fields with at least one
\* cell; fields without cells are the subject of C7.)
C1_ZeroOutsideRange ==
  (Completed /\ ~BadDims /\ OutsideRange) => num_total_vertices = 0

\* C2: whenever an extraction has just completed, vertices and normals both
\* have length num_total_vertices, and num_total_vertices is the sum of
\* num_vertices over all cells of that extraction.  (Stated for fields with
\* at least one cell.)
C2_LengthsAreTotal ==
  (Completed /\ ~BadDims) =>
    /\ Len(vertices) = num_total_vertices
    /\ Len(normals) = num_total_vertices
    /\ num_total_vertices = SumSeq(num_vertices)

\* C3: an extraction that directly follows a completed extraction with the
\* same isovalue leaves vertices, normals and num_total_vertices as the first
\* one left them.
C3_Idempotent ==
  [][ (Completed /\ Completed' /\ isovalue' = isovalue)
        => /\ vertices' = vertices
           /\ normals' = normals
           /\ num_total_vertices' = num_total_vertices ]_vars

\* two extractions completed in a row and the surface is not empty
C3_Witness == Completed /\ runs = 2 /\ vertices # <<>>

\* what a freshly constructed Surface exposes after one extraction of the
\* same field at the current isovalue: one result per value its
\* uninitialised reads can take
FreshResults ==
  { << R.S.vertices, R.S.normals, R.S.num_total_vertices >> :
      R \in { Q \in { operator_call(Constructed(isovalue, g), dims, point_data, "none", b) :
                        g \in UninitValues,
                        b \in IF NCellsOf(dims) = 0 THEN UninitValues ELSE {0} } :
              Q.outcome = "ok" } }

\* C4: after set_isovalue(v) and an extraction, vertices, normals and
\* num_total_vertices are those of a freshly constructed Surface on the same
\* field with isovalue v after one extraction, whatever calls came before.
\* (Stated for fields with at least one cell.)
C4_HistoryIndependent ==
  (Completed /\ ~BadDims) =>
    \A r \in FreshResults : << vertices, normals, num_total_vertices >> = r

\* C5: an extraction that finds no valid cell returns with vertices, normals
\* and scalars empty and has run neither the compaction search, nor the
\* offset scan, nor the geometry pass.
C5_EarlyOut ==
  (Completed /\ num_valid_cells = 0) =>
    /\ vertices = <<>>
    /\ normals = <<>>
    /\ scalars = <<>>
    /\ \A k \in 1..Len(passes) :
         passes[k] \notin {"upper_bound", "exclusive_scan", "generate"}

\* an extraction found no valid cell when the vertices of an earlier
\* extraction were still in place
C5_Witness == Completed /\ num_valid_cells = 0 /\ len_before > 0

\* the number of entries of row i of the case table that are not the sentinel
RowEdges(i) == Cardinality({k \in 0..15 : triTable(i * 16 + k) # -1})

\* C6: for every case index i in 0..255 the vertex count of the table is one
\* of 0, 3, 6, 9, 12, 15 and is the number of non-sentinel entries of row i
\* of the triangle table; so every count a Surface holds for a cell is the
\* number of non-sentinel entries of that cell's row.
C6_TablesConsistent ==
  /\ \A i \in 0..255 :
       /\ numVertsTable(i) \in {0, 3, 6, 9, 12, 15}
       /\ numVertsTable(i) = RowEdges(i)
  /\ \A c \in 1..Len(case_index) :
       /\ c <= Len(num_vertices)
       /\ num_vertices[c] = RowEdges(case_index[c])

\* an extraction has looked a non-empty row up in both tables: a cell got a
\* nonzero count and that many vertices were generated from its row
C6_Witness ==
  /\ Completed
  /\ \E c \in 1..Len(num_vertices) :
       num_vertices[c] # 0 /\ num_vertices[c] = RowEdges(case_index[c])
  /\ vertices # <<>>

\* C7: on a field with a dimension less than 2 an extraction ends by
\* reporting an error and has run no pass at all.
C7_FailFast ==
  (lastOp = "extract" /\ BadDims) => (outcome = "error" /\ passes = <<>>)

\* C8: an extraction in which the resize of vertices or of normals fails has
\* not run the geometry pass and leaves vertices and normals empty, with
\* num_total_vertices not describing more than is allocated.
C8_FailedAllocLeavesEmpty ==
  (lastOp = "extract" /\ outcome = "threw") =>
    /\ \A k \in 1..Len(passes) : passes[k] # "generate"
    /\ vertices = <<>>
    /\ normals = <<>>
    /\ num_total_vertices = 0

\* C9 as claimed: whatever the Surface holds, freeMemory can be called with
\* an argument for which it leaves vertices and normals as they are.
C9_OutputsSurviveSomeFree ==
  \E includeInput \in BOOLEAN :
    LET R == freeMemory(Surface, includeInput)
    IN  R.vertices = vertices /\ R.normals = normals

\* C9, amended: every freeMemory call empties vertices, normals, scalars,
\* valid_cell_indices and output_vertices_enum; freeMemory(false) leaves
\* case_index, num_vertices and valid_cell_enum unchanged and
\* freeMemory(true) empties them as well.
C9_FreeMemoryFrame ==
  [][ lastOp' = "freeMemory" =>
        /\ vertices' = <<>> /\ normals' = <<>> /\ scalars' = <<>>
        /\ valid_cell_indices' = <<>> /\ output_vertices_enum' = <<>>
        /\ num_total_vertices' = num_total_vertices
        /\ isovalue' = isovalue
        /\ IF lastArg'
             THEN /\ case_index' = <<>>
                  /\ num_vertices' = <<>>
                  /\ valid_cell_enum' = <<>>
             ELSE /\ case_index' = case_index
                  /\ num_vertices' = num_vertices
                  /\ valid_cell_enum' = valid_cell_enum ]_vars

\* freeMemory(false) released the vertices of an extraction and kept its
\* per-cell arrays
C9_Witness ==
  /\ lastOp = "freeMemory" /\ ~lastArg
  /\ len_before > 0 /\ vertices = <<>>
  /\ case_index # <<>> /\ \E c \in 1..Len(num_vertices) : num_vertices[c] # 0

\* the one-cell field with corners 0-3 at 0.0 and corners 4-7 at 1.0,
\* extracted at isovalue 0.5
PlaneScenario ==
  /\ dims = <<2, 2, 2>>
  /\ \A k \in 0..3 : At(point_data, classify_corners(dims, 0)[k + 1]) = 0
  /\ \A k \in 4..7 : At(point_data, classify_corners(dims, 0)[k + 1]) = 2
  /\ isovalue = 1
  /\ Completed

\* every vertex the cell emits has interpolation factor 1/2 and lies halfway
\* up the cell
AllHalfway ==
  /\ \A v \in 0..(At(num_vertices, 0) - 1) :
       interp_t(dims, point_data, isovalue, 0, At(case_index, 0), v) = << 1, 2 >>
  /\ \A k \in 1..Len(vertices) : vertices[k][3] = << 1, 2 >>

\* C10 as claimed: in the separating-plane scenario the case index is 240,
\* the vertex count is 12 and every emitted vertex has t = 0.5.
C10_PlaneTwelve ==
  PlaneScenario =>
    /\ At(case_index, 0) = 240
    /\ At(num_vertices, 0) = 12
    /\ Len(vertices) = 12
    /\ AllHalfway

\* C10, amended: in the separating-plane scenario the case index is 240, the
\* vertex count is 6 (two triangles) and every emitted vertex has t = 0.5.
C10_PlaneSix ==
  PlaneScenario =>
    /\ At(case_index, 0) = 240
    /\ At(num_vertices, 0) = 6
    /\ Len(vertices) = 6
    /\ num_total_vertices = 6
    /\ AllHalfway

\* the separating-plane scenario has been extracted
C10_Witness == PlaneScenario /\ vertices # <<>>

\* the position of corner k of the unit cell at the origin
CubeCorner(k) ==
  << IF k \in {1, 2, 5, 6} THEN 1 ELSE 0,
     IF k \in {2, 3, 6, 7} THEN 1 ELSE 0,
     IF k >= 4 THEN 1 ELSE 0 >>

\* the number q lies in the closed interval between the integers a and b
Between(q, a, b) ==
  /\ q # NaN
  /\ (IF a < b THEN a ELSE b) * q[2] <= q[1]
  /\ q[1] <= (IF a < b THEN b ELSE a) * q[2]

\* the cube edges of the unit cell at the origin on which the point p lies
EdgesThrough(p) ==
  { e \in 0..11 :
      \A c \in 1..3 :
        Between(p[c], CubeCorner(At(verticesForEdge, 2 * e))[c],
                      CubeCorner(At(verticesForEdge, 2 * e + 1))[c]) }

\* the one-cell field in which corner 0 is sampled below the isovalue and the
\* other seven corners above it, extracted
SingleCornerScenario ==
  /\ dims = <<2, 2, 2>>
  /\ point_data[1] < isovalue
  /\ \A i \in 2..8 : point_data[i] > isovalue
  /\ Completed

\* one triangle is emitted, with one vertex on each of the edges 0, 3 and 8
OneTriangleAtCornerZero ==
  /\ Len(vertices) = 3
  /\ Len(normals) = 3
  /\ num_total_vertices = 3
  /\ { EdgesThrough(vertices[k]) : k \in 1..Len(vertices) } = { {0}, {3}, {8} }

\* C11 as claimed: in the single-corner scenario the case index is 1, the
\* vertex count is 3 and exactly one triangle is emitted, whose vertices lie
\* on the edges 0, 3 and 8.
C11_CaseIndexOne ==
  SingleCornerScenario =>
    /\ At(case_index, 0) = 1
    /\ At(num_vertices, 0) = 3
    /\ OneTriangleAtCornerZero

\* C11, amended: in the single-corner scenario the case index is 254 (the
\* bits of the seven corners above the isovalue are set, bit 0 is clear), the
\* vertex count is 3 and exactly one triangle is emitted, whose vertices lie
\* on the edges 0, 3 and 8.
C11_CaseIndex254 ==
  SingleCornerScenario =>
    /\ At(case_index, 0) = 254
    /\ At(num_vertices, 0) = 3
    /\ OneTriangleAtCornerZero

\* the single-corner scenario has been extracted and produced vertices
C11_Witness == SingleCornerScenario /\ vertices # <<>>

\* the samples at the two ends of the edge of output vertex v of a cell
EndSamples(cell_id, v) ==
  LET i    == functor_corners(dims, cell_id)
      edge == triTable(At(case_index, cell_id) * 16 + v)
  IN  << At(point_data, i[At(verticesForEdge, 2 * edge) + 1]),
         At(point_data, i[At(verticesForEdge, 2 * edge + 1) + 1]) >>

\* no vertex that is emitted is interpolated between two equal samples
NoEqualEndpoints ==
  \A j \in 1..Len(valid_cell_indices) :
    \A v \in 0..(At(num_vertices, valid_cell_indices[j]) - 1) :
      EndSamples(valid_cell_indices[j], v)[1] # EndSamples(valid_cell_indices[j], v)[2]

\* cross(v1 - v0, v2 - v0) of the emitted triangle number n (from 0)
TriangleCross(n) ==
  cross([k \in 1..3 |-> RSub(vertices[3 * n + 2][k], vertices[3 * n + 1][k])],
        [k \in 1..3 |-> RSub(vertices[3 * n + 3][k], vertices[3 * n + 1][k])])

\* C12: whenever an extraction has completed in which no emitted vertex was
\* interpolated between equal samples, every emitted triangle has a nonzero
\* cross product of its edge vectors and its three normals are well defined;
\* a sample equal to the isovalue is no exception.
C12_NonDegenerate ==
  (Completed /\ ~BadDims /\ NoEqualEndpoints) =>
    \A n \in 0..((Len(vertices) \div 3) - 1) :
      /\ TriangleCross(n) # << RInt(0), RInt(0), RInt(0) >>
      /\ \A k \in 1..3 : normals[3 * n + k] # NaN

\* an extraction has completed that found at least one valid cell
FoundCells == Completed /\ ~BadDims /\ num_valid_cells > 0

\* the cells to which the classification gave a nonzero vertex count
ValidCells == { c \in 0..(Len(num_vertices) - 1) : At(num_vertices, c) # 0 }

\* the number of valid cells among the cells 0..c
ValidUpTo(c) == Cardinality({ b \in ValidCells : b <= c })

\* C13: after an extraction with at least one valid cell the last element of
\* valid_cell_enum is the number of cells with a nonzero vertex count, and
\* valid_cell_indices lists exactly those cells in strictly increasing order:
\* slot r holds the smallest cell whose inclusive valid count exceeds r.
C13_Compaction ==
  FoundCells =>
    /\ Back(valid_cell_enum) = Cardinality(ValidCells)
    /\ num_valid_cells = Cardinality(ValidCells)
    /\ Len(valid_cell_indices) = Cardinality(ValidCells)
    /\ { valid_cell_indices[r] : r \in 1..Len(valid_cell_indices) } = ValidCells
    /\ \A r \in 1..(Len(valid_cell_indices) - 1) :
         valid_cell_indices[r] < valid_cell_indices[r + 1]
    /\ \A r \in 0..(Len(valid_cell_indices) - 1) :
         /\ ValidUpTo(At(valid_cell_indices, r)) > r
         /\ \A c \in 0..(At(valid_cell_indices, r) - 1) : ValidUpTo(c) <= r

\* the compaction skipped a cell without vertices that lies between two
\* valid cells
C13_Witness ==
  /\ FoundCells
  /\ \E a, b, c \in 0..(Len(num_vertices) - 1) :
       /\ a < b /\ b < c
       /\ a \in ValidCells /\ b \notin ValidCells /\ c \in ValidCells
  /\ Len(valid_cell_indices) >= 2

\* the vertex count of the valid cell at compacted position j (from 0)
CountAt(j) == At(num_vertices, At(valid_cell_indices, j))

\* the sum of the vertex counts of the valid cells at positions 0..j-1
CountsBefore(j) == SumSeq([k \in 1..j |-> CountAt(k - 1)])

\* C14: after an extraction with at least one valid cell, offset j is the sum
\* of the vertex counts of the valid cells before position j (the first
\* offset is 0), the offsets are strictly increasing multiples of 3, and the
\* last offset plus the last valid cell's count is num_total_vertices.
C14_Offsets ==
  FoundCells =>
    /\ Len(output_vertices_enum) = Len(valid_cell_indices)
    /\ At(output_vertices_enum, 0) = 0
    /\ \A j \in 0..(Len(output_vertices_enum) - 1) :
         /\ At(output_vertices_enum, j) = CountsBefore(j)
         /\ At(output_vertices_enum, j) % 3 = 0
    /\ \A j \in 1..(Len(output_vertices_enum) - 1) :
         At(output_vertices_enum, j - 1) < At(output_vertices_enum, j)
    /\ Back(output_vertices_enum) + CountAt(Len(valid_cell_indices) - 1)
         = num_total_vertices

\* the scan has produced offsets for several valid cells
C14_Witness ==
  /\ FoundCells
  /\ Len(output_vertices_enum) >= 3
  /\ Back(output_vertices_enum) > 0

\* the output positions [offset_j, offset_j + count_j) of the valid cell at
\* compacted position j (from 0)
OutputRange(j) ==
  { p \in 0..(num_total_vertices - 1) :
      /\ At(output_vertices_enum, j) <= p
      /\ p < At(output_vertices_enum, j) + CountAt(j) }

\* the geometry pass of the extraction has started
Generating == exec.phase \in {"generate", "done"} /\ exec.pc # <<>>

\* C15: whatever the interleaving of the generator invocations, an invocation
\* writes vertices and normals and reads vertices back only inside the output
\* range of its cell; the ranges of the valid cells are pairwise disjoint and
\* together they are [0, num_total_vertices); so no position is written by
\* two invocations and, when the pass is over, none is left unwritten.
C15_RaceFree ==
  Generating =>
    /\ \A j \in 1..Len(exec.pc) : exec.touched[j] \subseteq OutputRange(j - 1)
    /\ \A i, j \in 1..Len(exec.pc) :
         i # j => OutputRange(i - 1) \cap OutputRange(j - 1) = {}
    /\ UNION { OutputRange(j - 1) : j \in 1..Len(exec.pc) }
         = 0..(num_total_vertices - 1)
    /\ Len(vertices) = num_total_vertices
    /\ Len(normals) = num_total_vertices
    /\ \A k \in 1..num_total_vertices :
         /\ exec.vwrites[k] <= 1
         /\ exec.nwrites[k] <= 1
         /\ exec.phase = "done" => (exec.vwrites[k] = 1 /\ exec.nwrites[k] = 1)

\* two invocations are under way at once: both have written and neither has
\* finished
C15_Witness ==
  /\ exec.phase = "generate"
  /\ \E i, j \in 1..Len(exec.pc) :
       /\ i < j
       /\ exec.touched[i] # {} /\ exec.touched[j] # {}
       /\ exec.pc[i] < CountAt(i - 1) + (CountAt(i - 1) \div 3)
       /\ exec.pc[j] < CountAt(j - 1) + (CountAt(j - 1) \div 3)
       /\ exec.pc[j] > CountAt(j - 1)

\* what the first operator() call on a new Surface leaves when it runs every
\* pass sequentially, left to right
Sequential ==
  operator_call(Constructed(isovalue, 0), dims, point_data, "none", 0).S

\* C16: when one extraction has returned, case_index, num_vertices, vertices
\* and normals are what a sequential left-to-right run of the same extraction
\* leaves, in whichever order and interleaving the invocations of the
\* classification pass and of the geometry pass took their steps.
C16_ExecutorIndependent ==
  (exec.phase = "done" /\ outcome = "ok") =>
    /\ case_index = Sequential.case_index
    /\ num_vertices = Sequential.num_vertices
    /\ vertices = Sequential.vertices
    /\ normals = Sequential.normals

\* an extraction with several valid cells has returned after its invocations
\* ran out of sequential order
C16_Witness ==
  /\ exec.phase = "done" /\ outcome = "ok"
  /\ exec.reordered
  /\ Len(exec.pc) >= 2
  /\ vertices # <<>>


\* the linear index of the cell with grid coordinate (x, y, z)
CellAt(x, y, z) ==
  x + y * (dims[1] - 1) + z * (dims[1] - 1) * (dims[2] - 1)

\* the sample at corner k of the cell (x, y, z): corners 0, 1, 2, 3 are the
\* grid points (x,y,z), (x+1,y,z), (x+1,y+1,z), (x,y+1,z), corner k + 4 is
\* corner k at z + 1
CornerSample(x, y, z, k) ==
  At(point_data, (x + CubeCorner(k)[1])
                 + (y + CubeCorner(k)[2]) * dims[1]
                 + (z + CubeCorner(k)[3]) * dims[1] * dims[2])

\* bit k of the number n
Bit(n, k) == (n \div (2 ^ k)) % 2

\* C17: after an extraction, for every cell the case index is in 0..255 and
\* has bit k set exactly if the sample at corner k of the cell is strictly
\* greater than the isovalue (an equal sample leaves the bit clear), and the
\* vertex count of the cell is the entry of the count table at its case index.
C17_Classification ==
  (Completed /\ ~BadDims) =>
    /\ Len(case_index) = NCellsOf(dims)
    /\ Len(num_vertices) = NCellsOf(dims)
    /\ \A x \in 0..(dims[1] - 2), y \in 0..(dims[2] - 2), z \in 0..(dims[3] - 2) :
         /\ At(case_index, CellAt(x, y, z)) \in 0..255
         /\ \A k \in 0..7 :
              Bit(At(case_index, CellAt(x, y, z)), k) = 1
                <=> CornerSample(x, y, z, k) > isovalue
         /\ At(num_vertices, CellAt(x, y, z))
              = numVerticesTable_array[At(case_index, CellAt(x, y, z)) + 1]

\* a cell with a corner above the isovalue and a corner equal to it has been
\* classified on a grid with more than one cell along every axis
C17_Witness ==
  /\ Completed
  /\ \A a \in 1..3 : dims[a] > 2
  /\ \E x \in 0..(dims[1] - 2), y \in 0..(dims[2] - 2), z \in 0..(dims[3] - 2) :
       /\ x + y + z > 0
       /\ \E k \in 0..7 : CornerSample(x, y, z, k) = isovalue
       /\ \E k \in 0..7 : CornerSample(x, y, z, k) > isovalue
       /\ At(case_index, CellAt(x, y, z)) \notin {0, 255}

\* the edges listed in the row of the case table that a cell has selected
RowOf(cell_id) ==
  { v \in 0..15 : triTable(At(case_index, cell_id) * 16 + v) # -1 }

\* C18: after an extraction, for every valid cell and every edge its row of
\* the case table lists (so for every vertex v < num_vertices the generator
\* emits), exactly one of the two corner samples at the ends of the edge is
\* greater than the isovalue; the two samples differ and the interpolation
\* factor is a number.
C18_NoZeroDenominator ==
  (Completed /\ ~BadDims) =>
    \A c \in ValidCells :
      /\ \A v \in 0..(At(num_vertices, c) - 1) : v \in RowOf(c)
      /\ \A v \in RowOf(c) :
           /\ (EndSamples(c, v)[1] > isovalue) # (EndSamples(c, v)[2] > isovalue)
           /\ EndSamples(c, v)[2] - EndSamples(c, v)[1] # 0
           /\ v < At(num_vertices, c) =>
                interp_t(dims, point_data, isovalue, c, At(case_index, c), v) # NaN

\* a vertex has been interpolated on an edge one end of which is sampled
\* exactly at the isovalue
C18_Witness ==
  /\ Completed /\ ~BadDims
  /\ vertices # <<>>
  /\ \E c \in ValidCells : \E v \in 0..(At(num_vertices, c) - 1) :
       isovalue \in { EndSamples(c, v)[1], EndSamples(c, v)[2] }

\* C19: on a field with every dimension at least 2, for every cell id the
\* eight corner point indices that the classifier derives are pairwise
\* distinct and lie in [0, dim0*dim1*dim2), and the geometry generator
\* derives the same eight indices in the same corner order.
C19_CornersInBounds ==
  (Completed /\ ~BadDims) =>
    \A cell_id \in 0..(NCellsOf(dims) - 1) :
      /\ Cardinality({ classify_corners(dims, cell_id)[k] : k \in 1..8 }) = 8
      /\ \A k \in 1..8 :
           /\ classify_corners(dims, cell_id)[k] >= 0
           /\ classify_corners(dims, cell_id)[k] < dims[1] * dims[2] * dims[3]
           /\ functor_corners(dims, cell_id)[k] = classify_corners(dims, cell_id)[k]

\* both functors have derived the corners of the last cell of a grid of
\* several layers whose rows and columns differ in length, and the cell
\* produced vertices
C19_Witness ==
  /\ Completed
  /\ dims[1] > dims[2] /\ dims[2] >= 2 /\ dims[3] > 2
  /\ At(num_vertices, NCellsOf(dims) - 1) # 0
  /\ vertices # <<>>

\* C20: after an extraction, in the row of the case table that a cell has
\* selected the first num_vertices entries are edge ids in 0..11 and every
\* later entry is the sentinel -1; so the generator loop over
\* v < num_vertices reads no sentinel and indexes verticesForEdge within
\* 0..23.  (The one-cell grids select every row 0..255.)
C20_EdgeListPrefix ==
  (Completed /\ ~BadDims) =>
    \A c \in 0..(Len(case_index) - 1) :
      /\ At(num_vertices, c) = numVerticesTable_array[At(case_index, c) + 1]
      /\ \A v \in 0..15 :
           IF v < At(num_vertices, c)
           THEN /\ triTable(At(case_index, c) * 16 + v) \in 0..11
                /\ 2 * triTable(At(case_index, c) * 16 + v) + 1 < Len(verticesForEdge)
           ELSE triTable(At(case_index, c) * 16 + v) = -1

\* the generator has read a row of the greatest length: 15 edges and one
\* sentinel
C20_Witness ==
  /\ Completed
  /\ Len(vertices) = 15
  /\ At(num_vertices, 0) = 15
  /\ triTable(At(case_index, 0) * 16 + 14) \in 0..11
  /\ triTable(At(case_index, 0) * 16 + 15) = -1

\* C21: a set_isovalue call leaves vertices, normals, scalars,
\* num_total_vertices, case_index, num_vertices, valid_cell_enum,
\* valid_cell_indices and output_vertices_enum as they were (only the stored
\* isovalue may differ); so until the next extraction the Surface still
\* exposes the result of the previous isovalue.
C21_SetIsovalueFrame ==
  [][ lastOp' = "set_isovalue" =>
        /\ vertices' = vertices
        /\ normals' = normals
        /\ scalars' = scalars
        /\ num_total_vertices' = num_total_vertices
        /\ case_index' = case_index
        /\ num_vertices' = num_vertices
        /\ valid_cell_enum' = valid_cell_enum
        /\ valid_cell_indices' = valid_cell_indices
        /\ output_vertices_enum' = output_vertices_enum
        /\ isovalue' \in IsoValues ]_vars

\* set_isovalue has moved the isovalue outside the range of the samples
\* while the vertices of the previous extraction are still exposed
C21_Witness ==
  /\ lastOp = "set_isovalue"
  /\ len_before > 0
  /\ Len(vertices) = len_before
  /\ OutsideRange
====
